---- MODULE Spec2Model ----
(***************************************************************************)
(* Ring-road traffic simulation (IDM car following with a scripted         *)
(* leader): Proyecto/simulacionPoo.py and ScriptFinal.py.                  *)
(*                                                                         *)
(* The two source files hold the same class TrafficSimulation with         *)
(* different parameter values; cfg selects the file ("poo" or "fin").      *)
(*                                                                         *)
(* Representation of the floats.  All quantities are fixed-point integers: *)
(*   length    1 unit = 1/10000 m            (Scale.metre units per metre) *)
(*   time      1 tick = DT = 0.05 s          (t = k * DT, k the tick)      *)
(*   velocity  units per tick   (so v * DT, the distance of a step, is v)  *)
(*   accel     units per tick^2 (so accel * DT, in velocity units, is      *)
(*             accel)                                                      *)
(* Dimensionless ratios are carried with Scale.ratio fractional steps.     *)
(* Divisions round to the nearest step, as the doubles do.  The exact IEEE *)
(* bit patterns and the drift of the accumulated t += DT are not           *)
(* represented.                                                            *)
(***************************************************************************)
EXTENDS Integers, Sequences, FiniteSets, TLC

VARIABLES cfg,      \* which source file's constructor built the object
          N,        \* self.N
          k,        \* tick of the main loop: t = k * DT
          s,        \* self.s, positions, indexed 0..N-1
          v,        \* self.v, velocities, indexed 0..N-1
          sPrev,    \* self.s before the last run_step (s at k = 0)
          vPrev,    \* self.v before the last run_step (v at k = 0)
          order,    \* order in which the last run_step visited the vehicles
          s2,       \* second engine driven with the same t: positions
          v2        \* second engine: velocities

vars == <<cfg, N, k, s, v, sPrev, vPrev, order, s2, v2>>

\* Number of loop iterations explored from the constructed state.
MaxSteps == 500

\* Last tick explored from the hand-set states.
MaxScenarioSteps == 76

Presets == {"poo", "fin"}

\* Fixed-point scales and the literals of run_step / idm_accel in them.
Scale ==
  [ metre   |-> 10000,   \* units per metre
    ratio   |-> 1000,    \* fractional steps of a dimensionless ratio
    root    |-> 10,      \* fractional steps of the square root
    ratioCap |-> 30000,  \* s_star / effective_gap saturates at 30.0
    hz      |-> 20 ]     \* ticks per second, 1 / DT

\* __init__ of each file, in fixed point.
Param ==
  [ c \in Presets |->
      IF c = "poo"
      THEN [ N |-> 22, CIRC |-> 2300000, SIM_TIME |-> 24000,
             L_VEHICLE |-> 40000, S0 |-> 20000,
             V0 |-> 5000, A_MAX |-> 25, B_DECEL |-> 100, T_HEADWAY |-> 32,
             STOP_DURATION |-> 40, FIRST_STOP |-> 40, REPEAT_INTERVAL |-> 200 ]
      ELSE [ N |-> 20, CIRC |-> 2300000, SIM_TIME |-> 24000,
             L_VEHICLE |-> 40000, S0 |-> 20000,
             V0 |-> 7500, A_MAX |-> 20, B_DECEL |-> 100, T_HEADWAY |-> 32,
             STOP_DURATION |-> 120, FIRST_STOP |-> 40, REPEAT_INTERVAL |-> 300 ] ]

P == Param[cfg]

Max(a, b) == IF a >= b THEN a ELSE b

Min(a, b) == IF a <= b THEN a ELSE b

\* math.sqrt on a non-negative integer, rounded down.
ISqrt(n) == CHOOSE r \in 0..(n + 1) : r * r <= n /\ (r + 1) * (r + 1) > n

\* 2 * math.sqrt(self.A_MAX * self.B_DECEL), times Scale.root.
TwoSqrtAB ==
  [ c \in Presets |->
      2 * ISqrt(Param[c].A_MAX * Param[c].B_DECEL * Scale.root * Scale.root) ]

Vehicles == 0..(N - 1)

\* np.linspace(0, CIRC, N, endpoint=False)
linspace(n, circ) == [ i \in 0..(n - 1) |-> (i * circ) \div n ]

\* a / b for b > 0, rounded to the nearest integer.
Div(a, b) == (2 * a + b) \div (2 * b)

\* TrafficSimulation.get_gap
get_gap(i, s_curr) ==
  LET leader_idx == (i - 1 + N) % N
      dist       == s_curr[leader_idx] - s_curr[i]
  IN  (IF dist < 0 THEN dist + P.CIRC ELSE dist) - P.L_VEHICLE

\* (v / V0) ** 4 as a ratio
SpeedRatio4(v_curr) ==
  LET r  == Div(v_curr * Scale.ratio, P.V0)
      r2 == Div(r * r, Scale.ratio)
  IN  Div(r2 * r2, Scale.ratio)

\* TrafficSimulation.idm_accel
\* The ratio s_star / effective_gap saturates at Scale.ratioCap to stay within
\* the integers of the model checker: from there on accel is below -V0 per
\* tick in both files, so max(0.0, v + accel * DT) is 0 either way.
idm_accel(v_curr, v_leader, gap) ==
  LET delta_v == v_curr - v_leader
      s_star  == P.S0 + Max(0, v_curr * P.T_HEADWAY
                               + Div(v_curr * delta_v * Scale.root, TwoSqrtAB[cfg]))
      effective_gap == Max(Scale.metre \div 100, gap)
      q  == Min(Scale.ratioCap, Div(s_star * Scale.ratio, effective_gap))
      q2 == Div(q * q, Scale.ratio)
  IN  Div(P.A_MAX * (Scale.ratio - SpeedRatio4(v_curr) - q2), Scale.ratio)

\* leader_stopped with cycle_pos <= STOP_DURATION
leader_stopped_le(t) ==
  LET time_since_start == t - P.FIRST_STOP
  IN  IF time_since_start >= 0
      THEN (time_since_start % P.REPEAT_INTERVAL) <= P.STOP_DURATION
      ELSE FALSE

\* TrafficSimulation.leader_stopped, t in ticks
leader_stopped(t) ==
  LET time_since_start == t - P.FIRST_STOP
  IN  IF time_since_start >= 0
      THEN (time_since_start % P.REPEAT_INTERVAL) < P.STOP_DURATION
      ELSE FALSE

\* the velocity update without max(0.0, .)
Floor0None(x) == x

\* max(0.0, x) of the velocity updates
Floor0(x) == Max(0, x)

\* the position update without % self.CIRC
WrapNone(x) == x

\* x % self.CIRC of the position updates
Wrap(x) == x % P.CIRC

\* accel[0] = -1.0 instead of -10.0
SoftBrake == Scale.metre \div (Scale.hz * Scale.hz)

\* accel[0] = -10.0 (in units per tick^2, a magnitude)
HardBrake == (10 * Scale.metre) \div (Scale.hz * Scale.hz)

\* the 0.5 of the anti-collision rule
Margin == Scale.metre \div 2

\* accel[0] of a leader that is not stopped
FreeAccel(v_curr) ==
  Div(P.A_MAX * (Scale.ratio - SpeedRatio4(v_curr)), Scale.ratio)

\* the anti-collision rule applied to no vehicle
ClampedNever(i) == FALSE

\* the anti-collision rule applied to vehicle 0 as well
ClampedAll(i) == TRUE

\* "if i != 0" guarding the anti-collision rule
Clamped(i) == i # 0

\* the anti-collision gap read from the positions already written
ClampGapNew(i, s_self, s_new) == get_gap(i, s_new)

\* "gap = self.get_gap(i, self.s)" of the anti-collision rule
ClampGap(i, s_self, s_new) == get_gap(i, s_self)

\* v_leader of the call to idm_accel: self.v[leader_idx]
LeaderSpeed(i, v_self, v_new) == v_self[(i - 1 + N) % N]

\* Body of the first loop of run_step for vehicle i.
\* st = [s_new, v_new, accel] are the locals, s_self / v_self the attributes.
AccelBody(i, st, s_self, v_self, p0_is_stopped) ==
  IF i = 0
  THEN IF p0_is_stopped
       THEN IF v_self[i] > 0
            THEN [st EXCEPT !.accel[i] = -HardBrake]
            ELSE [st EXCEPT !.accel[i] = 0, !.v_new[i] = 0]
       ELSE [st EXCEPT !.accel[i] = FreeAccel(v_self[i])]
  ELSE [st EXCEPT !.accel[i] =
          idm_accel(v_self[i], LeaderSpeed(i, v_self, st.v_new),
                    get_gap(i, s_self))]

\* Body of the second loop of run_step for vehicle i.
EulerBody(i, st, s_self, v_self, p0_is_stopped) ==
  IF i = 0 /\ p0_is_stopped /\ st.v_new[i] = 0
  THEN st
  ELSE LET v1  == Floor0(v_self[i] + st.accel[i])
           s1  == Wrap(s_self[i] + v1)
           gap == ClampGap(i, s_self, [st.s_new EXCEPT ![i] = s1])
       IN  IF Clamped(i) /\ v1 > gap - Margin
           THEN LET v_safe == Floor0(gap - Margin)
                IN  [st EXCEPT !.v_new[i] = v_safe,
                               !.s_new[i] = Wrap(s_self[i] + v_safe)]
           ELSE [st EXCEPT !.v_new[i] = v1, !.s_new[i] = s1]

\* "for i in range(self.N)" over the first loop's body; ord[idx] is the
\* vehicle of iteration idx, and the loop ends after len(accel) iterations.
RECURSIVE AccelLoop(_, _, _, _, _, _)
AccelLoop(ord, idx, st, s_self, v_self, p0) ==
  IF idx > Cardinality(DOMAIN st.accel) THEN st
  ELSE AccelLoop(ord, idx + 1, AccelBody(ord[idx], st, s_self, v_self, p0),
                 s_self, v_self, p0)

\* "for i in range(self.N)" over the second loop's body.
RECURSIVE EulerLoop(_, _, _, _, _, _)
EulerLoop(ord, idx, st, s_self, v_self, p0) ==
  IF idx > Cardinality(DOMAIN st.accel) THEN st
  ELSE EulerLoop(ord, idx + 1, EulerBody(ord[idx], st, s_self, v_self, p0),
                 s_self, v_self, p0)

\* range(self.N)
IndexOrder == [ j \in 1..N |-> j - 1 ]

\* TrafficSimulation.run_step(t) visiting the vehicles in the order ord in
\* both loops; the result is the pair assigned to self.s and self.v.
run_step_in(ord, s_self, v_self, t) ==
  LET p0_is_stopped == leader_stopped(t)
      st0 == [ s_new |-> s_self, v_new |-> v_self,
               accel |-> [ i \in DOMAIN s_self |-> 0 ] ]
      st1 == AccelLoop(ord, 1, st0, s_self, v_self, p0_is_stopped)
      st2 == EulerLoop(ord, 1, st1, s_self, v_self, p0_is_stopped)
  IN  [ s |-> st2.s_new, v |-> st2.v_new ]

\* TrafficSimulation.run_step(t)
run_step(s_self, v_self, t) == run_step_in(IndexOrder, s_self, v_self, t)

\* "self.s = s_new; self.v = v_new" closing run_step
Assign(r) ==
  /\ s' = r.s
  /\ v' = r.v

\* the same on the second engine
Assign2(r) ==
  /\ s2' = r.s
  /\ v2' = r.v

\* TrafficSimulation.__init__ for a ring of n vehicles
Construct(c, n) ==
  /\ cfg = c
  /\ N = n
  /\ k = 0
  /\ s = linspace(n, Param[c].CIRC)
  /\ v = [ i \in 0..(n - 1) |-> Param[c].V0 ]

\* sim = TrafficSimulation() of either file
Init ==
  /\ \E c \in Presets : Construct(c, Param[c].N)
  /\ sPrev = s
  /\ vPrev = v
  /\ order = << >>
  /\ s2 = << >>
  /\ v2 = << >>

\* One iteration of the loop of run(): self.run_step(t); t += self.DT
Loop ==
  /\ k < P.SIM_TIME
  /\ k < MaxSteps
  /\ Assign(run_step(s, v, k))
  /\ sPrev' = s
  /\ vPrev' = v
  /\ order' = IndexOrder
  /\ k' = k + 1
  /\ UNCHANGED <<cfg, N, s2, v2>>

Next == Loop

Spec == Init /\ [][Next]_vars

\* The degenerate ring: the constructor of either file with self.N = 1.
InitRing1 ==
  /\ \E c \in Presets : Construct(c, 1)
  /\ sPrev = s
  /\ vPrev = v
  /\ order = << >>
  /\ s2 = << >>
  /\ v2 = << >>

SpecRing1 == InitRing1 /\ [][Next]_vars

(***************************************************************************)
(* run_step as a function of (self.s, self.v, t): hand-set follower states *)
(* (tight packing behind vehicle 0), next to a second engine that starts   *)
(* from the constructed state and receives the same t.  Vehicle 0 is the   *)
(* same in both.                                                           *)
(***************************************************************************)

\* initial clearance of the odd followers: 0.3 m, 0.6 m, 2.0 m
GapGrid == {3000, 6000, 20000}

\* initial clearance of the even followers: 0.3 m
GapEven == (3 * Scale.metre) \div 10

\* initial speed of the odd followers: 3 m/s, V0
SpeedGrid(c) == {1500, Param[c].V0}

\* first t of the run, in ticks: 0.2 s before FIRST_STOP
StartTicks == {36}

\* self.s with the followers queued behind vehicle 0 (at 0), vehicle i one
\* vehicle length plus its clearance behind vehicle i - 1; with front, the
\* last vehicle stands L_VEHICLE + g0 ahead of vehicle 0 instead.
Packed(c, g0, front) ==
  [ i \in 0..(Param[c].N - 1) |->
      IF front /\ i = Param[c].N - 1 /\ i # 0
      THEN Param[c].L_VEHICLE + g0
      ELSE (Param[c].CIRC - (i * Param[c].L_VEHICLE + ((i + 1) \div 2) * g0
                             + (i \div 2) * GapEven)) % Param[c].CIRC ]

\* self.v: odd followers at vf, the others at V0; with front, the last
\* vehicle is at rest.
PackedSpeed(c, vf, front) ==
  [ i \in 0..(Param[c].N - 1) |->
      IF front /\ i = Param[c].N - 1 /\ i # 0 THEN 0
      ELSE IF i % 2 = 1 THEN vf
      ELSE Param[c].V0 ]

\* orders of visiting the vehicles: range(N), reversed(range(N)), and
\* range(N) rotated by half a ring
Orders ==
  { IndexOrder,
    [ j \in 1..N |-> N - j ],
    [ j \in 1..N |-> (j - 1 + N \div 2) % N ] }

InitScenario ==
  /\ \E c \in Presets, g0 \in GapGrid, front \in BOOLEAN, k0 \in StartTicks :
       \E vf \in SpeedGrid(c) :
         /\ cfg = c
         /\ N = Param[c].N
         /\ k = k0
         /\ s = Packed(c, g0, front)
         /\ v = PackedSpeed(c, vf, front)
         /\ s2 = linspace(Param[c].N, Param[c].CIRC)
         /\ v2 = [ i \in 0..(Param[c].N - 1) |-> Param[c].V0 ]
  /\ sPrev = s
  /\ vPrev = v
  /\ order = << >>

\* run_step(t) on both engines; the first visits the vehicles in some order
\* of Orders, the second as the code does.
LoopPair ==
  /\ k < P.SIM_TIME
  /\ k < MaxScenarioSteps
  /\ \E ord \in Orders :
       /\ Assign(run_step_in(ord, s, v, k))
       /\ order' = ord
  /\ Assign2(run_step(s2, v2, k))
  /\ sPrev' = s
  /\ vPrev' = v
  /\ k' = k + 1
  /\ UNCHANGED <<cfg, N>>

NextScenario == LoopPair

SpecScenario == InitScenario /\ [][NextScenario]_vars

\* a run_step has been applied: sPrev, vPrev and k - 1 are its inputs
Stepped == order # << >>

Followers == Vehicles \ {0}

\* get_gap(i, .) on the positions before the last run_step
PreGap(i) == get_gap(i, sPrev)

\* distance vehicle i moved forward in the last run_step
FwdMove(i) == (s[i] - sPrev[i]) % P.CIRC

\* forward ring distance from vehicle i to vehicle j
FwdDist(i, j) == (s[j] - s[i]) % P.CIRC

\* the safeguard replaced the Euler velocity of follower i in the last step
ClampActed(i) ==
  Floor0(vPrev[i] + idm_accel(vPrev[i], vPrev[(i - 1 + N) % N], PreGap(i)))
    > PreGap(i) - Margin

(***************************************************************************)
(* C1.  After every step, for every vehicle i (vehicle 0 included),        *)
(* get_gap(i, s) on the post-step positions is >= 0.                       *)
(***************************************************************************)
C1_GapNonNegative == \A i \in Vehicles : get_gap(i, s) >= 0

(***************************************************************************)
(* C2.  Initially and after every step, the vehicle used as the leader of  *)
(* i, (i - 1 + N) mod N, is the nearest vehicle ahead of i: no other       *)
(* vehicle has a smaller forward ring distance from i.                     *)
(***************************************************************************)
C2_LeaderIsNearestAhead ==
  \A i \in Vehicles : \A j \in Vehicles \ {i} :
    FwdDist(i, (i - 1 + N) % N) <= FwdDist(i, j)

(***************************************************************************)
(* C3.  For every follower i # 0 and every run_step, with g the gap on the *)
(* pre-step positions: if g >= 0.5 the distance travelled in the step is   *)
(* at most g - 0.5; if g < 0.5 the post-step velocity is 0 and the         *)
(* position is unchanged; so the follower stays short of its leader's      *)
(* pre-step position.                                                      *)
(***************************************************************************)
C3_NoOvertake ==
  Stepped =>
    \A i \in Followers :
      /\ FwdMove(i) = v[i]
      /\ PreGap(i) >= Margin => v[i] <= PreGap(i) - Margin
      /\ PreGap(i) < Margin => v[i] = 0 /\ s[i] = sPrev[i]
      /\ FwdMove(i) < PreGap(i) + P.L_VEHICLE

\* one follower was cut back to a positive speed and another, closer than
\* 0.5 to its leader, was stopped
C3_Witness ==
  /\ Stepped
  /\ \E i \in Followers :
       /\ PreGap(i) >= Margin
       /\ ClampActed(i)
       /\ v[i] = PreGap(i) - Margin
       /\ v[i] > 0
  /\ \E i \in Followers :
       /\ PreGap(i) < Margin
       /\ vPrev[i] > 0
       /\ v[i] = 0

(***************************************************************************)
(* C4.  Initially and after any sequence of steps every position satisfies *)
(* 0 <= s[i] < CIRC, also for the leader while it is pinned and skipped.   *)
(***************************************************************************)
C4_PositionDomain == \A i \in Vehicles : 0 <= s[i] /\ s[i] < P.CIRC

\* a vehicle wrapped past CIRC in a step in which the pinned leader was
\* skipped
C4_Witness ==
  /\ Stepped
  /\ \E i \in Followers : v[i] > 0 /\ s[i] < sPrev[i]
  /\ leader_stopped(k - 1) /\ vPrev[0] = 0 /\ s[0] = sPrev[0]

(***************************************************************************)
(* C5.  Initially and after any sequence of steps every velocity is >= 0,  *)
(* whichever branch produced it: hard braking of the leader, a strongly    *)
(* negative IDM acceleration, or the clamp with gap - 0.5 < 0.             *)
(***************************************************************************)
C5_VelocityNonNegative ==
  /\ \A i \in Vehicles : v[i] >= 0
  /\ \A i \in DOMAIN v2 : v2[i] >= 0

\* in one step the leader braked hard, the IDM acceleration of a follower
\* would have made its velocity negative, and a follower was clamped with
\* gap - 0.5 < 0
C5_Witness ==
  /\ Stepped
  /\ leader_stopped(k - 1) /\ vPrev[0] > 0 /\ v[0] < vPrev[0]
  /\ \E i \in Followers :
       /\ PreGap(i) >= Margin
       /\ vPrev[i] + idm_accel(vPrev[i], vPrev[(i - 1 + N) % N], PreGap(i)) < 0
       /\ v[i] = 0
  /\ \E i \in Followers :
       /\ PreGap(i) < Margin
       /\ ClampActed(i)
       /\ v[i] = 0

\* t lies in one of the windows [FIRST_STOP + n * REPEAT_INTERVAL,
\* FIRST_STOP + n * REPEAT_INTERVAL + STOP_DURATION), n = 0, 1, 2, ...
InStopWindow(t) ==
  \E n \in 0..(t \div P.REPEAT_INTERVAL) :
    /\ P.FIRST_STOP + n * P.REPEAT_INTERVAL <= t
    /\ t < P.FIRST_STOP + n * P.REPEAT_INTERVAL + P.STOP_DURATION

(***************************************************************************)
(* C6.  leader_stopped(t) is False for t < FIRST_STOP; for t >= FIRST_STOP *)
(* it is True exactly in a window of length STOP_DURATION at the start of  *)
(* every REPEAT_INTERVAL counted from FIRST_STOP.                          *)
(***************************************************************************)
C6_LeaderSchedule ==
  \A t \in 0..k :
    /\ t < P.FIRST_STOP => ~leader_stopped(t)
    /\ t >= P.FIRST_STOP => (leader_stopped(t) <=> InStopWindow(t))

\* the loop has entered the second stop window and left it again
C6_Witness ==
  /\ Stepped
  /\ k > P.FIRST_STOP + P.REPEAT_INTERVAL + P.STOP_DURATION
  /\ leader_stopped(k - P.STOP_DURATION)
  /\ ~leader_stopped(k)

\* ceil(V0 / (10 * DT)), the bound the claim puts on the braking steps
BrakeSteps ==
  LET perStep == (10 * Scale.metre) \div (Scale.hz * Scale.hz)
  IN  (P.V0 + perStep - 1) \div perStep

(***************************************************************************)
(* C7.  With the parameters of ScriptFinal.py and t = 0, DT, 2*DT, ...:    *)
(* the leader's velocity is exactly 0 at most ceil(V0 / (10 * DT)) steps   *)
(* after t = FIRST_STOP, then v[0] stays 0 and s[0] unchanged on every     *)
(* step until t = FIRST_STOP + STOP_DURATION, and the first step with      *)
(* leader_stopped(t) False makes v[0] strictly positive.                   *)
(***************************************************************************)
C7_ScriptedStop ==
  cfg = "fin" =>
    /\ (P.FIRST_STOP + BrakeSteps <= k /\ k <= P.FIRST_STOP + P.STOP_DURATION)
         => v[0] = 0
    /\ (P.FIRST_STOP + BrakeSteps < k /\ k <= P.FIRST_STOP + P.STOP_DURATION)
         => s[0] = sPrev[0] /\ vPrev[0] = 0
    /\ (k = P.FIRST_STOP + P.STOP_DURATION + 1)
         => ~leader_stopped(k - 1) /\ leader_stopped(k - 2) /\ v[0] > 0

\* the leader of ScriptFinal.py has stopped, stood still and moved off again
C7_Witness ==
  /\ cfg = "fin"
  /\ k = P.FIRST_STOP + P.STOP_DURATION + 1
  /\ vPrev[0] = 0
  /\ v[0] > 0

(***************************************************************************)
(* C8.  With N = 1 the single vehicle is its own leader and get_gap(0, s)  *)
(* equals CIRC - L_VEHICLE in every reachable state.                       *)
(***************************************************************************)
C8_Ring1Gap == N = 1 => get_gap(0, s) = P.CIRC - P.L_VEHICLE

(***************************************************************************)
(* C9.  Within one run_step, visiting the N vehicles in any permutation of *)
(* the index order yields the post-step state that range(N) yields.        *)
(***************************************************************************)
C9_OrderIndependent ==
  Stepped =>
    /\ s = run_step(sPrev, vPrev, k - 1).s
    /\ v = run_step(sPrev, vPrev, k - 1).v

\* the step visited the vehicles in another order than range(N) and the
\* safeguard cut a follower back to a positive speed
C9_Witness ==
  /\ Stepped
  /\ order # IndexOrder
  /\ \E i \in Followers : ClampActed(i) /\ v[i] > 0 /\ v[i] = PreGap(i) - Margin

(***************************************************************************)
(* C10.  Two runs that agree on vehicle 0 and on the t values but differ   *)
(* in vehicles 1..N-1 give vehicle 0 the same position and velocity after  *)
(* every step.                                                             *)
(***************************************************************************)
C10_LeaderIndependent ==
  DOMAIN s2 # {} => s[0] = s2[0] /\ v[0] = v2[0]

\* the runs differ in the followers, and in the first the last vehicle was
\* less than 0.5 ahead of vehicle 0, which moved on all the same
C10_Witness ==
  /\ Stepped
  /\ DOMAIN s2 # {}
  /\ \E i \in Followers : sPrev[i] # s2[i]
  /\ get_gap(0, sPrev) < Margin
  /\ get_gap(0, sPrev) >= 0
  /\ v[0] > get_gap(0, sPrev)

====
